---------------------------- MODULE Spec2Model ----------------------------
(***************************************************************************)
(* Model of cflib/crtp/simdriver.py: the Crazyflie simulation CRTP link    *)
(* driver (SimDriver), its POSIX message queue transport                   *)
(* (SimulationIpcPosix), the port multiplexer with its two pump threads    *)
(* (InterProcessCommunicatorPosix) and the frame codec.                    *)
(*                                                                         *)
(* Bytes are naturals 0..255, byte strings are sequences of bytes.         *)
(* Objects created by a constructor call (queue.Queue, SimulationIpcPosix  *)
(* with its InterProcessCommunicatorPosix, OS message queues) are numbered *)
(* in creation order; 0 stands for None / attribute not set.               *)
(***************************************************************************)
EXTENDS Naturals, Integers, Sequences, FiniteSets, TLC

(***************************************************************************)
(* Program constants                                                       *)
(***************************************************************************)
PORT_IPC_CRTP == 0

MAX_PAYLOAD == 30

\* max_message_size of both posix_ipc.MessageQueue objects
MAX_MESSAGE_SIZE == 33

(***************************************************************************)
(* Bounds of the model                                                     *)
(***************************************************************************)
\* max_messages of the OS queues is 100 in the program; the model runs the
\* same code against a smaller capacity so that a full queue is reachable.
QueueCapacity == 1

\* connect() calls per run (each constructs one SimulationIpcPosix)
MaxCom == 2

\* send_packet() calls per run
MaxSend == 2

\* messages the peer process writes per run of the inbound path
MaxPeerMsg == 2

\* messages the peer process writes per run of the life cycle
MaxLifeMsg == 1

\* handlers the application registers on one port
MaxHandlers == 2

\* messages the peer process writes per run of the port multiplexer
MaxRouterMsg == 1

(***************************************************************************)
(* Byte strings                                                            *)
(***************************************************************************)
Fill(n, b) == [i \in 1..n |-> b]

Min(a, b) == IF a <= b THEN a ELSE b

\* b[lo:hi] of Python on a byte string (0-based, hi exclusive, clipped)
Slice(b, lo, hi) ==
    LET h == Min(hi, Len(b))
    IN  IF lo >= h THEN << >> ELSE SubSeq(b, lo + 1, h)

\* A raised struct.error, as a value no byte string equals
StructError == << -1 >>

\* struct.pack('<B', n): one byte, struct.error outside 0..255
PackB(n) == IF n \in 0..255 THEN << n >> ELSE StructError

\* A raised struct.error in place of an unpacked byte
NoByte == -1

\* struct.unpack('<B', b)[0]: needs exactly one byte
UnpackB(b) == IF Len(b) = 1 THEN b[1] ELSE NoByte

(***************************************************************************)
(* CRTPPacket (cflib.crtp.crtpstack): the packet type this layer frames.   *)
(* Only the header byte, the data and the data size are used.              *)
(***************************************************************************)
CRTPPacket(h, d) == [header |-> h, data |-> d]

get_header(pk) == pk.header

get_data_size(pk) == Len(pk.data)

(***************************************************************************)
(* SimulationIpcPosix.convertCRTPPacketObjectToBytearray                   *)
(* range(MAX_PAYLOAD - packet_size) is empty when the payload is longer    *)
(* than MAX_PAYLOAD; bytes(0x1) is one zero byte.                          *)
(***************************************************************************)
Padding(packet_size) ==
    IF packet_size <= MAX_PAYLOAD THEN Fill(MAX_PAYLOAD - packet_size, 0)
    ELSE << >>

convertCRTPPacketObjectToBytearray(crtp_packet) ==
    LET packet_size == get_data_size(crtp_packet)
        header == PackB(get_header(crtp_packet))
        size == PackB(packet_size)
    IN  IF header = StructError \/ size = StructError THEN StructError
        ELSE size \o header \o crtp_packet.data \o Padding(packet_size)

(***************************************************************************)
(* SimulationIpcPosix.convertBytearrayToCRTPPacketObject                   *)
(***************************************************************************)
\* A raised struct.error in place of a decoded packet
NoPacket == [header |-> NoByte, data |-> << >>]

RECURSIVE StripPadding(_)
\* b without the padding bytes at its end
StripPadding(b) ==
    IF b # << >> /\ b[Len(b)] = 0
    THEN StripPadding(SubSeq(b, 1, Len(b) - 1))
    ELSE b

\* Mutant of convertBytearrayToCRTPPacketObject: the payload found by
\* taking the padding off the end of the frame, the size byte not used
convertStrippingPadding(crtpPacketBytes) ==
    LET packet_header == UnpackB(Slice(crtpPacketBytes, 1, 2))
    IN  IF packet_header = NoByte THEN NoPacket
        ELSE CRTPPacket(packet_header,
                        StripPadding(Slice(crtpPacketBytes, 2,
                                           Len(crtpPacketBytes))))

convertBytearrayToCRTPPacketObject(crtpPacketBytes) ==
    LET packet_size == UnpackB(Slice(crtpPacketBytes, 0, 1))
        packet_header == UnpackB(Slice(crtpPacketBytes, 1, 2))
    IN  IF packet_size = NoByte \/ packet_header = NoByte
        THEN NoPacket
        ELSE CRTPPacket(packet_header,
                        Slice(crtpPacketBytes, 2, packet_size + 2))

(***************************************************************************)
(* InterProcessPacket                                                      *)
(***************************************************************************)
InterProcessPacket(port, payload) == [port |-> port, payload |-> payload]

\* Mutant of getBytes: the port byte left out
getBytesNoPort(ipcPacket) == ipcPacket.payload

getBytes(ipcPacket) == PackB(ipcPacket.port) \o ipcPacket.payload

(***************************************************************************)
(* State                                                                   *)
(***************************************************************************)
\* "A" is the process running SimDriver as written; "B" is a peer process
\* running the same transport with the two queue names exchanged.
Procs == {"A", "B"}

ComIds == 1..MaxCom

VARIABLES
    mqNames,            \* OS: queue name -> queue object (0: no such name)
    mq,                 \* OS: queue objects, mq[id] = messages waiting
    in_queue,           \* SimDriver._in_queue: queue.Queue object (0: None)
    inQ,                \* queue.Queue objects, inQ[id] = entries waiting
    crtpCom,            \* SimDriver.crtpCom: SimulationIpcPosix (0: None)
    nObj,               \* SimulationIpcPosix objects constructed so far
    owner,              \* the SimDriver whose connect() constructed object k
    rxQueueName,        \* SimulationIpcPosix.rxQueueName
    txQueueName,        \* SimulationIpcPosix.txQueueName
    rxIpcQueue,         \* SimulationIpcPosix.rxIpcQueue (0: not set)
    txIpcQueue,         \* SimulationIpcPosix.txIpcQueue (0: not set)
    simCom,             \* SimulationIpcPosix.simCom is set
    incomingCrtpPacket, \* SimulationIpcPosix.incomingCrtpPacket callbacks
    txThreadQueue,      \* InterProcessCommunicatorPosix.txThreadQueue
    portCallbacks,      \* InterProcessCommunicatorPosix.portCallbacks
    rxData,             \* InterProcessCommunicatorPosix.rxData
    txData,             \* InterProcessCommunicatorPosix.txData
    rxpc,               \* position of rxThread in _receiveIpcPacket
    txpc,               \* position of txThread in _sendIpcPacket
    ipcPacket,          \* txThread's local ipcPacket while inside send()
    ctl,                \* position of the thread calling connect/send/close
    cur,                \* the object the running connect() is constructing
    result,             \* how the last connect/send_packet/close call ended
    rcv,                \* the thread calling receive_packet
    ret,                \* value of the last receive_packet return
    \* history, read by the properties only
    taken,              \* messages rxThread k took from its OS queue
    written,            \* messages txThread k wrote to its OS queue
    sendLog,            \* packets handed to send_packet on object k
    retLog,             \* entries receive_packet took from queue.Queue q
    closedRet,          \* close() has returned normally on object k
    lateWork,           \* dispatches and writes of k after that return
    dispatched,         \* the dispatch of each message rxThread k took
    nSend, nPeer,       \* send_packet calls and peer messages so far
    codec               \* a run of the frame codec on its own

osVars == << mqNames, mq >>

driverVars == << in_queue, inQ, crtpCom >>

simVars == << nObj, owner, rxQueueName, txQueueName, rxIpcQueue, txIpcQueue,
              simCom, incomingCrtpPacket >>

comVars == << txThreadQueue, portCallbacks, rxData, txData >>

pumpVars == << rxpc, txpc, ipcPacket >>

callVars == << ctl, cur, result, rcv, ret >>

histVars == << taken, written, sendLog, retLog, closedRet, lateWork,
              dispatched >>

countVars == << nSend, nPeer >>

vars == << osVars, driverVars, simVars, comVars, pumpVars, callVars,
           histVars, countVars, codec >>

\* SimDriver.connect: "/rxsimcrtpmq" + uri[-2:] and "/txsimcrtpmq" + uri[-2:];
\* the peer opens the same two names the other way round.
RxName(p) == IF p = "A" THEN "/rxsimcrtpmq" ELSE "/txsimcrtpmq"

TxName(p) == IF p = "A" THEN "/txsimcrtpmq" ELSE "/rxsimcrtpmq"

QueueNames == {"/rxsimcrtpmq", "/txsimcrtpmq"}

\* The dict {}
EmptyDict == [x \in {} |-> << >>]

\* receive_packet returning None
None == << >>

\* The frame codec run on its own: the packet given, the frame encoded from
\* it, the packet decoded from that frame
CodecIdle ==
    [pc |-> "idle", packet |-> NoPacket, frame |-> << >>, result |-> NoPacket]

\* The program before the first connect()
InitProgram ==
    /\ mqNames = [n \in QueueNames |-> 0]
    /\ mq = << >>
    /\ in_queue = [p \in Procs |-> 0]
    /\ inQ = [q \in ComIds |-> << >>]
    /\ crtpCom = [p \in Procs |-> 0]
    /\ nObj = 0
    /\ owner = [k \in ComIds |-> "A"]
    /\ rxQueueName = [k \in ComIds |-> ""]
    /\ txQueueName = [k \in ComIds |-> ""]
    /\ rxIpcQueue = [k \in ComIds |-> 0]
    /\ txIpcQueue = [k \in ComIds |-> 0]
    /\ simCom = [k \in ComIds |-> FALSE]
    /\ incomingCrtpPacket = [k \in ComIds |-> << >>]
    /\ txThreadQueue = [k \in ComIds |-> << >>]
    /\ portCallbacks = [k \in ComIds |-> EmptyDict]
    /\ rxData = [k \in ComIds |-> FALSE]
    /\ txData = [k \in ComIds |-> FALSE]
    /\ rxpc = [k \in ComIds |-> "unborn"]
    /\ txpc = [k \in ComIds |-> "unborn"]
    /\ ipcPacket = [k \in ComIds |-> InterProcessPacket(0, << >>)]
    /\ ctl = [p \in Procs |-> "idle"]
    /\ cur = [p \in Procs |-> 0]
    /\ result = [p \in Procs |-> "none"]
    /\ rcv = [p \in Procs |-> [pc |-> "idle", wait |-> 0, q |-> 0]]
    /\ ret = [p \in Procs |-> None]
    /\ taken = [k \in ComIds |-> << >>]
    /\ written = [k \in ComIds |-> << >>]
    /\ sendLog = [k \in ComIds |-> << >>]
    /\ retLog = [q \in ComIds |-> << >>]
    /\ closedRet = [k \in ComIds |-> FALSE]
    /\ lateWork = [k \in ComIds |-> 0]
    /\ dispatched = [k \in ComIds |-> << >>]
    /\ nSend = 0
    /\ nPeer = 0

Init ==
    /\ InitProgram
    /\ codec = CodecIdle

(***************************************************************************)
(* OS message queues (posix_ipc.MessageQueue)                              *)
(***************************************************************************)
\* MessageQueue(name, flags=O_CREAT): the queue of that name, created empty
\* when the name does not exist
OpenedNames(name) ==
    IF mqNames[name] = 0 THEN [mqNames EXCEPT ![name] = Len(mq) + 1]
    ELSE mqNames

OpenedQueues(name) ==
    IF mqNames[name] = 0 THEN Append(mq, << >>) ELSE mq

\* MessageQueue.send would block: the queue holds max_messages messages
IsFull(id) == Len(mq[id]) >= QueueCapacity

(***************************************************************************)
(* InterProcessCommunicatorPosix.addPortCallback                           *)
(* The duplicate check walks portCallbacks.items(), whose elements are     *)
(* (port, list) pairs; cb is compared by identity with those pairs.        *)
(***************************************************************************)
ItemsOf(callbacks) == { "items() pair" : prt \in DOMAIN callbacks }

addPortCallback(callbacks, port, cb) ==
    IF port \in DOMAIN callbacks
       /\ \E currentCb \in ItemsOf(callbacks) : currentCb = cb
    THEN callbacks
    ELSE IF port \notin DOMAIN callbacks
         THEN callbacks @@ (port :> << cb >>)
         ELSE [callbacks EXCEPT ![port] = Append(@, cb)]

\* line 357: `port in cb`. Every handler is a function or a bound method
\* ("Callback function to be called when data arrives"), which the `in`
\* operator cannot search: TypeError.
PortInCb(port, cb) == "TypeError"

\* lines 355-361: the registry after the call and the exception it raised.
\* Past the test of line 357 the loop walks items() as addPortCallback does,
\* and dict has no remove().
removePortCallback(callbacks, port, cb) ==
    IF PortInCb(port, cb) = "TypeError"
    THEN [callbacks |-> callbacks, raised |-> "TypeError"]
    ELSE IF PortInCb(port, cb) = "True"
            /\ \E currentCb \in ItemsOf(callbacks) : currentCb = cb
    THEN [callbacks |-> callbacks, raised |-> "AttributeError"]
    ELSE [callbacks |-> callbacks, raised |-> "none"]

\* Caller.add_callback of cflib.utils.callbacks: appended unless present
add_callback(callbacks, cb) ==
    IF \E i \in 1..Len(callbacks) : callbacks[i] = cb THEN callbacks
    ELSE Append(callbacks, cb)

(***************************************************************************)
(* SimDriver.connect, in the steps at which the pump threads it starts     *)
(* can interleave with it.                                                 *)
(***************************************************************************)
\* The link of p is open: connect() completed the construction and close()
\* has not returned on it
LinkOpen(p) ==
    /\ crtpCom[p] # 0
    /\ simCom[crtpCom[p]]
    /\ ~closedRet[crtpCom[p]]

\* lines 90-98 and 178-182: callbacks stored, a new queue.Queue, the names;
\* limit is the number of connect() calls the run may make
ConnectBegin(p, limit) ==
    /\ ctl[p] = "idle"
    /\ ~LinkOpen(p)
    /\ nObj < limit
    /\ LET k == nObj + 1
       IN  /\ nObj' = k
           /\ in_queue' = [in_queue EXCEPT ![p] = k]
           /\ cur' = [cur EXCEPT ![p] = k]
           /\ owner' = [owner EXCEPT ![k] = p]
           /\ rxQueueName' = [rxQueueName EXCEPT ![k] = RxName(p)]
           /\ txQueueName' = [txQueueName EXCEPT ![k] = TxName(p)]
    /\ ctl' = [ctl EXCEPT ![p] = "create_rx"]
    /\ UNCHANGED << codec, osVars, inQ, crtpCom, rxIpcQueue, txIpcQueue,
                    simCom, incomingCrtpPacket, comVars, pumpVars, result,
                    rcv, ret, histVars, countVars >>

\* lines 185-190: the rx queue is opened, or the constructor prints and
\* returns; outcomes are the answers the OS may give (TRUE: opened)
CreateRxQueue(p, outcomes) ==
    /\ ctl[p] = "create_rx"
    /\ \E ok \in outcomes :
          IF ok
          THEN /\ mqNames' = OpenedNames(rxQueueName[cur[p]])
               /\ mq' = OpenedQueues(rxQueueName[cur[p]])
               /\ rxIpcQueue' = [rxIpcQueue EXCEPT
                                   ![cur[p]] = mqNames'[rxQueueName[cur[p]]]]
               /\ ctl' = [ctl EXCEPT ![p] = "create_tx"]
          ELSE /\ ctl' = [ctl EXCEPT ![p] = "add_callback"]
               /\ UNCHANGED << osVars, rxIpcQueue >>
    /\ UNCHANGED << codec, driverVars, nObj, owner, rxQueueName, txQueueName,
                    txIpcQueue, simCom, incomingCrtpPacket, comVars, pumpVars,
                    cur, result, rcv, ret, histVars, countVars >>

\* lines 192-197: the same for the tx queue
CreateTxQueue(p, outcomes) ==
    /\ ctl[p] = "create_tx"
    /\ \E ok \in outcomes :
          IF ok
          THEN /\ mqNames' = OpenedNames(txQueueName[cur[p]])
               /\ mq' = OpenedQueues(txQueueName[cur[p]])
               /\ txIpcQueue' = [txIpcQueue EXCEPT
                                   ![cur[p]] = mqNames'[txQueueName[cur[p]]]]
               /\ ctl' = [ctl EXCEPT ![p] = "start_com"]
          ELSE /\ ctl' = [ctl EXCEPT ![p] = "add_callback"]
               /\ UNCHANGED << osVars, txIpcQueue >>
    /\ UNCHANGED << codec, driverVars, nObj, owner, rxQueueName, txQueueName,
                    rxIpcQueue, simCom, incomingCrtpPacket, comVars, pumpVars,
                    cur, result, rcv, ret, histVars, countVars >>

\* line 199, InterProcessCommunicatorPosix.__init__: both threads started
StartCom(p) ==
    /\ ctl[p] = "start_com"
    /\ simCom' = [simCom EXCEPT ![cur[p]] = TRUE]
    /\ txThreadQueue' = [txThreadQueue EXCEPT ![cur[p]] = << >>]
    /\ portCallbacks' = [portCallbacks EXCEPT ![cur[p]] = EmptyDict]
    /\ rxData' = [rxData EXCEPT ![cur[p]] = TRUE]
    /\ txData' = [txData EXCEPT ![cur[p]] = TRUE]
    /\ rxpc' = [rxpc EXCEPT ![cur[p]] = "loop"]
    /\ txpc' = [txpc EXCEPT ![cur[p]] = "loop"]
    /\ ctl' = [ctl EXCEPT ![p] = "add_port_cb"]
    /\ UNCHANGED << codec, osVars, driverVars, nObj, owner, rxQueueName,
                    txQueueName, rxIpcQueue, txIpcQueue, incomingCrtpPacket,
                    ipcPacket, cur, result, rcv, ret, histVars, countVars >>

\* line 200: the handler of the application port
AddPortCb(p) ==
    /\ ctl[p] = "add_port_cb"
    /\ portCallbacks' = [portCallbacks EXCEPT ![cur[p]] =
          addPortCallback(@, PORT_IPC_CRTP, "_handleIncomingCrtpPacket")]
    /\ ctl' = [ctl EXCEPT ![p] = "add_callback"]
    /\ UNCHANGED << codec, osVars, driverVars, simVars, txThreadQueue, rxData,
                    txData, pumpVars, cur, result, rcv, ret, histVars,
                    countVars >>

\* lines 100-101: crtpCom assigned, the driver's callback added; connect
\* returns normally whether or not the constructor opened the queues
ConnectEnd(p) ==
    /\ ctl[p] = "add_callback"
    /\ crtpCom' = [crtpCom EXCEPT ![p] = cur[p]]
    /\ incomingCrtpPacket' = [incomingCrtpPacket EXCEPT ![cur[p]] =
          add_callback(@, "_receive_packet_posix_mq")]
    /\ ctl' = [ctl EXCEPT ![p] = "idle"]
    /\ result' = [result EXCEPT ![p] = "connect returned"]
    /\ UNCHANGED << codec, osVars, in_queue, inQ, nObj, owner, rxQueueName,
                    txQueueName, rxIpcQueue, txIpcQueue, simCom, comVars,
                    pumpVars, cur, rcv, ret, histVars, countVars >>

(***************************************************************************)
(* SimDriver.send_packet -> SimulationIpcPosix.sendCrtpPacket ->           *)
(* sendCrtpPacketBytes -> InterProcessCommunicatorPosix.send               *)
(***************************************************************************)
\* Mutant of QueuePut: the packet put at the head of the buffer
QueuePutFirst(queue, item) == << item >> \o queue

\* lines 363-365: txThreadQueue.put(ipcPacket)
QueuePut(queue, item) == Append(queue, item)

\* Mutant of PutBlocks: send waits until the OS queue of object k has room
PutBlocksOnFullQueue(k) == IsFull(txIpcQueue[k])

\* lines 297 and 365: txThreadQueue is a Queue() without maxsize, whose put
\* never waits, whatever the state of the OS queue
PutBlocks(k) == FALSE

send_packet(p, pk) ==
    /\ ctl[p] = "idle"
    /\ crtpCom[p] # 0
    /\ ~closedRet[crtpCom[p]]
    /\ nSend < MaxSend
    /\ simCom[crtpCom[p]] => ~PutBlocks(crtpCom[p])
    /\ nSend' = nSend + 1
    /\ LET k == crtpCom[p]
           crtpPacketBytes == convertCRTPPacketObjectToBytearray(pk)
       IN  IF crtpPacketBytes = StructError
           THEN /\ result' = [result EXCEPT ![p] = "struct.error"]
                /\ UNCHANGED << txThreadQueue, sendLog >>
           ELSE IF ~simCom[k]
           THEN /\ result' = [result EXCEPT ![p] = "AttributeError"]
                /\ UNCHANGED << txThreadQueue, sendLog >>
           ELSE /\ txThreadQueue' = [txThreadQueue EXCEPT ![k] =
                      QueuePut(@, InterProcessPacket(PORT_IPC_CRTP,
                                                     crtpPacketBytes))]
                /\ sendLog' = [sendLog EXCEPT ![k] = Append(@, pk)]
                /\ result' = [result EXCEPT ![p] = "send_packet returned"]
    /\ UNCHANGED << codec, dispatched, osVars, driverVars, simVars,
                    portCallbacks, rxData, txData, pumpVars, ctl, cur, rcv,
                    ret, taken, written, retLog, closedRet, lateWork, nPeer >>

(***************************************************************************)
(* SimDriver.close -> SimulationIpcPosix.endCommunication                  *)
(***************************************************************************)
\* line 277 (lines 376-378): both flags cleared, the thread is not joined;
\* AttributeError when the constructor returned before setting simCom
CloseBegin(p) ==
    /\ ctl[p] = "idle"
    /\ crtpCom[p] # 0
    /\ ~closedRet[crtpCom[p]]
    /\ LET k == crtpCom[p]
       IN  IF simCom[k]
           THEN /\ rxData' = [rxData EXCEPT ![k] = FALSE]
                /\ txData' = [txData EXCEPT ![k] = FALSE]
                /\ ctl' = [ctl EXCEPT ![p] = "unlink"]
                /\ UNCHANGED result
           ELSE /\ result' = [result EXCEPT ![p] = "AttributeError"]
                /\ UNCHANGED << rxData, txData, ctl >>
    /\ UNCHANGED << codec, osVars, driverVars, simVars, txThreadQueue,
                    portCallbacks, pumpVars, cur, rcv, ret, histVars,
                    countVars >>

\* Mutant of Unlinked: the handle is closed and the name is left in place
NotUnlinked(names, name) == names

\* MessageQueue.unlink: the name is removed; the queue object lives on for
\* the handles still open on it
Unlinked(names, name) == [names EXCEPT ![name] = 0]

\* lines 278-279
CloseUnlink(p) ==
    /\ ctl[p] = "unlink"
    /\ LET k == crtpCom[p]
       IN  IF mqNames[rxQueueName[k]] = 0 \/ mqNames[txQueueName[k]] = 0
           THEN /\ result' = [result EXCEPT ![p] = "ExistentialError"]
                /\ mqNames' = IF mqNames[rxQueueName[k]] = 0 THEN mqNames
                              ELSE Unlinked(mqNames, rxQueueName[k])
                /\ UNCHANGED closedRet
           ELSE /\ mqNames' = Unlinked(Unlinked(mqNames, rxQueueName[k]),
                                       txQueueName[k])
                /\ closedRet' = [closedRet EXCEPT ![k] = TRUE]
                /\ result' = [result EXCEPT ![p] = "close returned"]
    /\ ctl' = [ctl EXCEPT ![p] = "idle"]
    /\ UNCHANGED << codec, dispatched, mq, driverVars, simVars, comVars,
                    pumpVars, cur, rcv, ret, taken, written, sendLog, retLog,
                    lateWork, countVars >>

(***************************************************************************)
(* SimDriver.receive_packet, called from a thread of its own: the call     *)
(* binds self._in_queue, then get() returns or raises queue.Empty.         *)
(***************************************************************************)
\* Mutant of Blocks: a negative wait handled like a timeout that ran out
BlocksNever(wait) == FALSE

\* lines 120-122: a negative wait is get(True), without timeout
Blocks(wait) == wait < 0

receive_packet_call(p, wait) ==
    /\ rcv[p].pc = "idle"
    /\ in_queue[p] # 0
    /\ rcv' = [rcv EXCEPT ![p] = [pc |-> "get", wait |-> wait,
                                  q |-> in_queue[p]]]
    /\ UNCHANGED << codec, osVars, driverVars, simVars, comVars, pumpVars,
                    ctl, cur, result, ret, histVars, countVars >>

\* get(False) and get(True, wait) raise queue.Empty on an empty queue (at
\* once, or when the timeout runs out); get(True) waits for an entry
receive_packet_return(p) ==
    /\ rcv[p].pc = "get"
    /\ LET q == rcv[p].q
       IN  IF inQ[q] # << >>
           THEN /\ ret' = [ret EXCEPT ![p] = << Head(inQ[q]).pkt >>]
                /\ inQ' = [inQ EXCEPT ![q] = Tail(@)]
                /\ retLog' = [retLog EXCEPT ![q] = Append(@, Head(inQ[q]))]
           ELSE /\ ~Blocks(rcv[p].wait)
                /\ ret' = [ret EXCEPT ![p] = None]
                /\ UNCHANGED << inQ, retLog >>
    /\ rcv' = [rcv EXCEPT ![p].pc = "idle"]
    /\ UNCHANGED << codec, dispatched, osVars, in_queue, crtpCom, simVars,
                    comVars, pumpVars, ctl, cur, result, taken, written,
                    sendLog, closedRet, lateWork, countVars >>

(***************************************************************************)
(* rxThread: InterProcessCommunicatorPosix._receiveIpcPacket               *)
(***************************************************************************)
\* line 318: the port byte of a received message (struct.error when the
\* message is empty)
PortOf(m) == UnpackB(Slice(m, 0, 1))

\* line 322: ipcPacketBytes[0][1:]
PayloadOf(m) == Slice(m, 1, Len(m))

\* Mutant of HandlersFor: the handlers of some registered port, whatever
\* the port of the message
HandlersForAnyPort(k, port) ==
    IF DOMAIN portCallbacks[k] = {} THEN << >>
    ELSE portCallbacks[k][CHOOSE prt \in DOMAIN portCallbacks[k] : TRUE]

\* lines 349-351: the handlers of the port, none for an unknown port
HandlersFor(k, port) ==
    IF port \in DOMAIN portCallbacks[k] THEN portCallbacks[k][port]
    ELSE << >>

\* lines 351-352: the loop walks the copy made when the dispatch started,
\* not the list a handler may be appending to
copyOfCallbacks(atStart, live) == atStart

\* A handler call that raises: _handleIncomingCrtpPacket on a payload the
\* decoder cannot unpack (line 264), the application's faulty handler always
HandlerRaises(cb, payload) ==
    CASE cb = "_handleIncomingCrtpPacket" ->
            convertBytearrayToCRTPPacketObject(payload) = NoPacket
      [] cb = "faultyHandler" -> TRUE
      [] OTHER -> FALSE

\* What a handler call that returns has done. _handleIncomingCrtpPacket
\* (lines 263-265) decodes the payload and calls every callback of
\* incomingCrtpPacket, each (_receive_packet_posix_mq) putting the packet
\* into the driver's queue; the application's registering handler registers
\* handlerB on the port it serves; the other handlers only take the payload.
HandlerEffect(k, cb, port, payload, st) ==
    CASE cb = "_handleIncomingCrtpPacket" ->
            [st EXCEPT !.entries = @ \o
                Fill(Len(incomingCrtpPacket[k]),
                     convertBytearrayToCRTPPacketObject(payload))]
      [] cb = "registeringHandler" ->
            [st EXCEPT !.callbacks = addPortCallback(@, port, "handlerB")]
      [] OTHER -> st

RECURSIVE RunCallbacks(_, _, _, _, _, _)
\* lines 352-353: for cb in copyOfCallbacks: cb(payload), from the i-th
\* handler on; an exception raised by a handler leaves the loop
RunCallbacks(k, atStart, i, port, payload, st) ==
    LET list == copyOfCallbacks(atStart, st.callbacks[port])
    IN  IF i > Len(list) THEN st
        ELSE LET cb == list[i]
                 called == [st EXCEPT !.invoked =
                               Append(@, [cb |-> cb, payload |-> payload])]
             IN  IF HandlerRaises(cb, payload)
                 THEN [called EXCEPT !.raised = TRUE]
                 ELSE RunCallbacks(k, atStart, i + 1, port, payload,
                                   HandlerEffect(k, cb, port, payload, called))

\* A dispatch that has done nothing yet on the registry of object k
NothingDone(k) ==
    [callbacks |-> portCallbacks[k], entries |-> << >>, invoked |-> << >>,
     raised |-> FALSE]

\* lines 347-353
invokePortCallbacks(k, port, payload) ==
    IF HandlersFor(k, port) = << >> THEN NothingDone(k)
    ELSE RunCallbacks(k, HandlersFor(k, port), 1, port, payload,
                      NothingDone(k))

\* lines 318-322: the port byte unpacked (struct.error on an empty message)
\* and the rest of the message dispatched
Dispatch(k, m) ==
    IF PortOf(m) = NoByte THEN [NothingDone(k) EXCEPT !.raised = TRUE]
    ELSE invokePortCallbacks(k, PortOf(m), PayloadOf(m))

\* The packets a dispatch has put into the driver's queue
Delivered(done) == done.entries

\* The number of handler calls a dispatch has made
Invoked(done) == Len(done.invoked)

\* Mutant of PutAll: the entries put at the head of the queue
PutAllFirst(queue, entries) == entries \o queue

\* queue.Queue.put of the entries, in order
PutAll(queue, entries) == queue \o entries

\* line 311: while(self.rxData)
RxLoop(k) ==
    /\ rxpc[k] = "loop"
    /\ rxpc' = [rxpc EXCEPT ![k] = IF rxData[k] THEN "receive" ELSE "done"]
    /\ UNCHANGED << codec, osVars, driverVars, simVars, comVars, txpc,
                    ipcPacket, callVars, histVars, countVars >>

\* lines 314-324: receive(timeout=0.1) returns the oldest message, which is
\* dispatched, or raises BusyError on an empty queue; every exception is
\* swallowed and the loop goes on
RxReceive(k) ==
    /\ rxpc[k] = "receive"
    /\ LET q == rxIpcQueue[k]
       IN  IF mq[q] # << >>
           THEN \E done \in { Dispatch(k, Head(mq[q])) } :
                   LET n == Len(taken[k]) + 1
                       entries == [i \in 1..Len(Delivered(done)) |->
                                     [pkt |-> Delivered(done)[i],
                                      com |-> k, idx |-> n]]
                       dest == in_queue[owner[k]]
                   IN  /\ mq' = [mq EXCEPT ![q] = Tail(@)]
                       /\ taken' = [taken EXCEPT ![k] = Append(@, Head(mq[q]))]
                       /\ inQ' = [inQ EXCEPT ![dest] = PutAll(@, entries)]
                       /\ portCallbacks' = [portCallbacks EXCEPT
                                              ![k] = done.callbacks]
                       /\ dispatched' = [dispatched EXCEPT ![k] = Append(@,
                             [registry |-> portCallbacks[k],
                              invoked |-> done.invoked,
                              raised |-> done.raised])]
                       /\ lateWork' = [lateWork EXCEPT ![k] =
                             IF closedRet[k] THEN @ + Invoked(done) ELSE @]
           ELSE UNCHANGED << mq, taken, inQ, portCallbacks, dispatched,
                             lateWork >>
    /\ rxpc' = [rxpc EXCEPT ![k] = "loop"]
    /\ UNCHANGED << codec, mqNames, in_queue, crtpCom, simVars, txThreadQueue,
                    rxData, txData, txpc, ipcPacket, callVars, written,
                    sendLog, retLog, closedRet, countVars >>

(***************************************************************************)
(* txThread: InterProcessCommunicatorPosix._sendIpcPacket                  *)
(***************************************************************************)
\* line 368: while(self.txData)
TxLoop(k) ==
    /\ txpc[k] = "loop"
    /\ txpc' = [txpc EXCEPT ![k] = IF txData[k] THEN "get" ELSE "done"]
    /\ UNCHANGED << codec, osVars, driverVars, simVars, comVars, rxpc,
                    ipcPacket, callVars, histVars, countVars >>

\* MessageQueue.send raises ValueError for a message longer than
\* max_message_size
TooLong(m) == Len(m) > MAX_MESSAGE_SIZE

\* lines 370-373: get(block=True, timeout=0.1) raises queue.Empty on an empty
\* buffer; otherwise the packet is sent: refused by the OS queue (exception
\* swallowed), written, or the thread stays inside send() on a full queue
TxGet(k) ==
    /\ txpc[k] = "get"
    /\ IF txThreadQueue[k] = << >>
       THEN /\ txpc' = [txpc EXCEPT ![k] = "loop"]
            /\ UNCHANGED << mq, txThreadQueue, ipcPacket, written, lateWork >>
       ELSE LET pkt == Head(txThreadQueue[k])
                m == getBytes(pkt)
                q == txIpcQueue[k]
            IN  /\ txThreadQueue' = [txThreadQueue EXCEPT ![k] = Tail(@)]
                /\ IF TooLong(m)
                   THEN /\ txpc' = [txpc EXCEPT ![k] = "loop"]
                        /\ UNCHANGED << mq, ipcPacket, written, lateWork >>
                   ELSE IF IsFull(q)
                   THEN /\ txpc' = [txpc EXCEPT ![k] = "send"]
                        /\ ipcPacket' = [ipcPacket EXCEPT ![k] = pkt]
                        /\ UNCHANGED << mq, written, lateWork >>
                   ELSE /\ mq' = [mq EXCEPT ![q] = Append(@, m)]
                        /\ written' = [written EXCEPT ![k] = Append(@, m)]
                        /\ lateWork' = [lateWork EXCEPT ![k] =
                              IF closedRet[k] THEN @ + 1 ELSE @]
                        /\ txpc' = [txpc EXCEPT ![k] = "loop"]
                        /\ UNCHANGED ipcPacket
    /\ UNCHANGED << codec, dispatched, mqNames, driverVars, simVars,
                    portCallbacks, rxData, txData, rxpc, callVars, taken,
                    sendLog, retLog, closedRet, countVars >>

\* line 371, the blocked send() going through once the queue has room
TxSend(k) ==
    /\ txpc[k] = "send"
    /\ ~IsFull(txIpcQueue[k])
    /\ mq' = [mq EXCEPT ![txIpcQueue[k]] = Append(@, getBytes(ipcPacket[k]))]
    /\ written' = [written EXCEPT ![k] = Append(@, getBytes(ipcPacket[k]))]
    /\ lateWork' = [lateWork EXCEPT ![k] = IF closedRet[k] THEN @ + 1 ELSE @]
    /\ txpc' = [txpc EXCEPT ![k] = "loop"]
    /\ UNCHANGED << codec, dispatched, mqNames, driverVars, simVars, comVars,
                    rxpc, ipcPacket, callVars, taken, sendLog, retLog,
                    closedRet, countVars >>

(***************************************************************************)
(* The application registering and removing handlers on the multiplexer of *)
(* its open link (crtpCom.simCom). rxThread dispatches a message in one    *)
(* step, so a call made while a dispatch runs takes effect before or after *)
(* it; the copy of line 351 gives the dispatch the same handlers either    *)
(* way.                                                                    *)
(***************************************************************************)
AddPortCallbackCall(p, port, cb) ==
    /\ ctl[p] = "idle"
    /\ LinkOpen(p)
    /\ Len(HandlersFor(crtpCom[p], port)) < MaxHandlers
    /\ portCallbacks' = [portCallbacks EXCEPT ![crtpCom[p]] =
                            addPortCallback(@, port, cb)]
    /\ result' = [result EXCEPT ![p] = "addPortCallback returned"]
    /\ UNCHANGED << codec, osVars, driverVars, simVars, txThreadQueue, rxData,
                    txData, pumpVars, ctl, cur, rcv, ret, histVars, countVars >>

RemovePortCallbackCall(p, port, cb) ==
    /\ ctl[p] = "idle"
    /\ LinkOpen(p)
    /\ LET done == removePortCallback(portCallbacks[crtpCom[p]], port, cb)
       IN  /\ portCallbacks' = [portCallbacks EXCEPT
                                  ![crtpCom[p]] = done.callbacks]
           /\ result' = [result EXCEPT ![p] =
                 IF done.raised = "none" THEN "removePortCallback returned"
                 ELSE done.raised]
    /\ UNCHANGED << codec, osVars, driverVars, simVars, txThreadQueue, rxData,
                    txData, pumpVars, ctl, cur, rcv, ret, histVars, countVars >>

(***************************************************************************)
(* The other end of the two queues of process A: a process that writes     *)
(* messages to A's rx queue and reads A's tx queue, opening both by name;  *)
(* limit is the number of messages it writes in the run.                   *)
(***************************************************************************)
PeerSend(m, limit) ==
    /\ nPeer < limit
    /\ nPeer' = nPeer + 1
    /\ LET names == OpenedNames(RxName("A"))
           queues == OpenedQueues(RxName("A"))
           q == names[RxName("A")]
       IN  /\ Len(queues[q]) < QueueCapacity
           /\ mqNames' = names
           /\ mq' = [queues EXCEPT ![q] = Append(@, m)]
    /\ UNCHANGED << codec, driverVars, simVars, comVars, pumpVars, callVars,
                    histVars, nSend >>

PeerReceive ==
    /\ mqNames[TxName("A")] # 0
    /\ mq[mqNames[TxName("A")]] # << >>
    /\ mq' = [mq EXCEPT ![mqNames[TxName("A")]] = Tail(@)]
    /\ UNCHANGED << codec, mqNames, driverVars, simVars, comVars, pumpVars,
                    callVars, histVars, countVars >>

(***************************************************************************)
(* Inputs                                                                  *)
(***************************************************************************)
\* header byte of port 0x09, channel 2: port << 4 | 3 << 2 | channel
Header92 == 9 * 16 + 3 * 4 + 2

\* Packets the application sends: short payloads, one ending in the padding
\* value, the longest legal payload, and one byte more than that
SendPackets ==
    { CRTPPacket(Header92, << 1, 2, 3 >>),
      CRTPPacket(Header92, << 5, 0 >>),
      CRTPPacket(Header92, Fill(MAX_PAYLOAD, 7)),
      CRTPPacket(Header92, Fill(MAX_PAYLOAD + 1, 7)) }

\* A message as a well-behaved peer writes it
WellFormed(pk) ==
    getBytes(InterProcessPacket(PORT_IPC_CRTP,
                                convertCRTPPacketObjectToBytearray(pk)))

\* Frames that break the frame layout: one byte only; declared size 31 in a
\* full-length message; declared size 5 with two payload bytes present
ShortFrame == << PORT_IPC_CRTP, 1 >>

OversizeFrame == << PORT_IPC_CRTP, MAX_PAYLOAD + 1, Header92 >>
                    \o Fill(MAX_PAYLOAD, 9)

TruncatedFrame == << PORT_IPC_CRTP, 5, Header92, 1, 2 >>

MalformedMessages == { ShortFrame, OversizeFrame, TruncatedFrame }

PeerMessages ==
    { WellFormed(CRTPPacket(Header92, << 1, 2, 3 >>)),
      WellFormed(CRTPPacket(Header92, << 4 >>)) } \cup MalformedMessages

\* Handlers the application registers, as (port, handler): on port 5 a plain
\* handler, one that raises and one that registers handlerB on its port
\* while it is being called; on port 6 the plain handler
Registrations ==
    { << 5, "handlerA" >>, << 5, "faultyHandler" >>,
      << 5, "registeringHandler" >>, << 6, "handlerA" >> }

\* removePortCallback calls: of a handler that is registered on the port or
\* is not, on a port that is known or is not, as the registry stands
Removals == { << 5, "handlerA" >>, << 6, "handlerA" >> }

\* Messages for those ports, and one for the application port
RouterMessages ==
    { << 5, 1, 2 >>, << 6, 3 >>,
      WellFormed(CRTPPacket(Header92, << 1, 2, 3 >>)) }

\* receive_packet(wait): poll, block, block with timeout
Waits == { 0, -1, 1 }

(***************************************************************************)
(* Process A with the peer behind its queues: the life cycle of the link   *)
(* (connect, also with the OS refusing a queue, close, connect again).     *)
(* send_packet is not called here, so every txThread only polls its empty  *)
(* buffer until its flag is cleared; its steps change nothing but txpc and *)
(* are left to SpecTx.                                                     *)
(***************************************************************************)
LifeMessages == { WellFormed(CRTPPacket(Header92, << 1, 2, 3 >>)) }

Next ==
    \/ ConnectBegin("A", MaxCom)
    \/ CreateRxQueue("A", BOOLEAN)
    \/ CreateTxQueue("A", BOOLEAN)
    \/ StartCom("A")
    \/ AddPortCb("A")
    \/ ConnectEnd("A")
    \/ CloseBegin("A")
    \/ CloseUnlink("A")
    \/ receive_packet_call("A", 0)
    \/ receive_packet_return("A")
    \/ \E k \in ComIds : RxLoop(k)
    \/ \E k \in ComIds : RxReceive(k)
    \/ \E m \in LifeMessages : PeerSend(m, MaxLifeMsg)

Spec == Init /\ [][Next]_vars

(***************************************************************************)
(* The inbound path of one connection: the peer writes well-formed and     *)
(* malformed messages, the application calls receive_packet in its three   *)
(* modes.                                                                  *)
(***************************************************************************)
NextRx ==
    \/ ConnectBegin("A", 1)
    \/ CreateRxQueue("A", {TRUE})
    \/ CreateTxQueue("A", {TRUE})
    \/ StartCom("A")
    \/ AddPortCb("A")
    \/ ConnectEnd("A")
    \/ \E w \in Waits : receive_packet_call("A", w)
    \/ receive_packet_return("A")
    \/ \E k \in ComIds : RxLoop(k)
    \/ \E k \in ComIds : RxReceive(k)
    \/ \E k \in ComIds : TxLoop(k)
    \/ \E k \in ComIds : TxGet(k)
    \/ \E m \in PeerMessages : PeerSend(m, MaxPeerMsg)

SpecRx == Init /\ [][NextRx]_vars

(***************************************************************************)
(* The outbound path of one connection up to its close: the application    *)
(* sends, the peer reads the tx queue or leaves it full.                   *)
(***************************************************************************)
NextTx ==
    \/ ConnectBegin("A", 1)
    \/ CreateRxQueue("A", {TRUE})
    \/ CreateTxQueue("A", {TRUE})
    \/ StartCom("A")
    \/ AddPortCb("A")
    \/ ConnectEnd("A")
    \/ \E pk \in SendPackets : send_packet("A", pk)
    \/ CloseBegin("A")
    \/ CloseUnlink("A")
    \/ \E k \in ComIds : RxLoop(k)
    \/ \E k \in ComIds : RxReceive(k)
    \/ \E k \in ComIds : TxLoop(k)
    \/ \E k \in ComIds : TxGet(k)
    \/ \E k \in ComIds : TxSend(k)
    \/ PeerReceive

SpecTx == Init /\ [][NextTx]_vars

\* Both threads of every object are scheduled again and again; the peer is
\* under no obligation to read the tx queue, and the application under none
\* to call anything.
RxThread(k) == RxLoop(k) \/ RxReceive(k)

TxThread(k) == TxLoop(k) \/ TxGet(k) \/ TxSend(k)

PumpFairness ==
    \A k \in ComIds : WF_vars(RxThread(k)) /\ WF_vars(TxThread(k))

FairSpecTx == SpecTx /\ PumpFairness

(***************************************************************************)
(* Two processes on one connection identifier, A's tx queue being B's rx   *)
(* queue: both connect, then A sends and B calls receive_packet(-1).       *)
(* Neither side closes and the OS opens every queue. B sends nothing and   *)
(* A receives nothing, so B's txThread and A's rxThread only poll; their   *)
(* steps change nothing but their own position and are left out.           *)
(***************************************************************************)
\* Packets with payloads of 0..MAX_PAYLOAD bytes
E2EPackets ==
    { CRTPPacket(Header92, << 1, 2, 3 >>),
      CRTPPacket(Header92, << >>),
      CRTPPacket(Header92, << 5, 0 >>),
      CRTPPacket(Header92, Fill(MAX_PAYLOAD, 7)) }

BothConnected ==
    \A p \in Procs : ctl[p] = "idle" /\ LinkOpen(p)

NextE2E ==
    \/ \E p \in Procs : ConnectBegin(p, Cardinality(Procs))
    \/ \E p \in Procs : CreateRxQueue(p, {TRUE})
    \/ \E p \in Procs : CreateTxQueue(p, {TRUE})
    \/ \E p \in Procs : StartCom(p)
    \/ \E p \in Procs : AddPortCb(p)
    \/ \E p \in Procs : ConnectEnd(p)
    \/ \E pk \in E2EPackets : BothConnected /\ send_packet("A", pk)
    \/ receive_packet_call("B", -1)
    \/ receive_packet_return("B")
    \/ \E k \in ComIds : owner[k] = "B" /\ RxLoop(k)
    \/ \E k \in ComIds : owner[k] = "B" /\ RxReceive(k)
    \/ \E k \in ComIds : owner[k] = "A" /\ TxLoop(k)
    \/ \E k \in ComIds : owner[k] = "A" /\ TxGet(k)
    \/ \E k \in ComIds : owner[k] = "A" /\ TxSend(k)

SpecE2E == Init /\ [][NextE2E]_vars

\* A's txThread and B's rxThread are scheduled, and B's application keeps
\* calling receive_packet(-1)
FairSpecE2E ==
    /\ SpecE2E
    /\ WF_vars(\E k \in ComIds : owner[k] = "A" /\ TxThread(k))
    /\ WF_vars(\E k \in ComIds : owner[k] = "B" /\ RxThread(k))
    /\ WF_vars(receive_packet_call("B", -1) \/ receive_packet_return("B"))

(***************************************************************************)
(* The port multiplexer of one connection: the application registers and   *)
(* removes handlers, the peer writes messages for several ports. Nothing   *)
(* is sent, so the txThread only polls and its steps are left out.         *)
(***************************************************************************)
NextRouter ==
    \/ ConnectBegin("A", 1)
    \/ CreateRxQueue("A", {TRUE})
    \/ CreateTxQueue("A", {TRUE})
    \/ StartCom("A")
    \/ AddPortCb("A")
    \/ ConnectEnd("A")
    \/ \E r \in Registrations : AddPortCallbackCall("A", r[1], r[2])
    \/ \E r \in Removals : RemovePortCallbackCall("A", r[1], r[2])
    \/ \E k \in ComIds : RxLoop(k)
    \/ \E k \in ComIds : RxReceive(k)
    \/ \E m \in RouterMessages : PeerSend(m, MaxRouterMsg)

SpecRouter == Init /\ [][NextRouter]_vars

(***************************************************************************)
(* The frame codec on its own: a packet is encoded, the frame is decoded.  *)
(***************************************************************************)
\* Header bytes as get_header gives them (port, link bits, channel): the
\* lowest, the one of port 0x09 channel 2, the highest
CodecHeaders == { 3 * 4, Header92, 15 * 16 + 3 * 4 + 3 }

\* Payloads of every length 0..MAX_PAYLOAD: of padding bytes only, of other
\* bytes, and of other bytes with the padding value at the end
CodecPayloads ==
    UNION { { Fill(n, 0), Fill(n, 7), Fill(n, 255),
              [i \in 1..n |-> IF i = n THEN 0 ELSE 7] } : n \in 0..MAX_PAYLOAD }

InitCodec ==
    /\ InitProgram
    /\ \E h \in CodecHeaders, d \in CodecPayloads :
          codec = [pc |-> "packet", packet |-> CRTPPacket(h, d),
                   frame |-> << >>, result |-> NoPacket]

Encode ==
    /\ codec.pc = "packet"
    /\ codec' = [codec EXCEPT
                   !.frame = convertCRTPPacketObjectToBytearray(codec.packet),
                   !.pc = "frame"]
    /\ UNCHANGED << osVars, driverVars, simVars, comVars, pumpVars, callVars,
                    histVars, countVars >>

Decode ==
    /\ codec.pc = "frame"
    /\ codec' = [codec EXCEPT
                   !.result = convertBytearrayToCRTPPacketObject(codec.frame),
                   !.pc = "done"]
    /\ UNCHANGED << osVars, driverVars, simVars, comVars, pumpVars, callVars,
                    histVars, countVars >>

NextCodec == Encode \/ Decode

SpecCodec == InitCodec /\ [][NextCodec]_vars

(***************************************************************************)
(* Properties                                                              *)
(***************************************************************************)
\* Everything queue.Queue q ever held that did not get lost: what
\* receive_packet returned from it, then what still waits in it
Passed(q) == retLog[q] \o inQ[q]

\* The message an entry of a queue.Queue was decoded from
SourceOf(e) == taken[e.com][e.idx]

\* C1: receive_packet(wait) follows the three-way contract. A call whose
\* queue holds a packet can return and returns the oldest one, removing it;
\* on an empty queue a call with wait >= 0 can return (at once for 0, on
\* expiry for wait > 0) and returns None leaving the queue as it is, and a
\* call with wait < 0 cannot return at all, so it never returns None.
C1_ReceiveContract ==
    /\ [][\A p \in Procs :
            (rcv[p].pc = "get" /\ rcv'[p].pc = "idle") =>
               LET q == rcv[p].q
               IN  IF inQ[q] # << >>
                   THEN /\ ret'[p] = << Head(inQ[q]).pkt >>
                        /\ inQ'[q] = Tail(inQ[q])
                   ELSE /\ rcv[p].wait >= 0
                        /\ ret'[p] = None
                        /\ inQ'[q] = inQ[q]]_vars
    /\ [](\A p \in Procs :
            rcv[p].pc = "get" =>
               IF rcv[p].wait < 0 /\ inQ[rcv[p].q] = << >>
               THEN ~ENABLED receive_packet_return(p)
               ELSE ENABLED receive_packet_return(p))

\* C1 witness: a blocking call has returned a packet, and the queue it
\* returned it from is empty again
C1_Witness ==
    /\ rcv["A"].pc = "idle"
    /\ rcv["A"].wait < 0
    /\ ret["A"] # None
    /\ retLog[rcv["A"].q] # << >>
    /\ inQ[rcv["A"].q] = << >>

\* C2: inbound order is preserved. The packets receive_packet returned from
\* a queue, followed by those still waiting in it, are the decoded frames of
\* messages the rxThread took, in the order it took them, each taken message
\* at most once.
C2_InboundOrder ==
    \A q \in ComIds :
       /\ \A i \in 1..Len(Passed(q)) :
             /\ Passed(q)[i].idx \in 1..Len(taken[Passed(q)[i].com])
             /\ Passed(q)[i].pkt =
                   convertBytearrayToCRTPPacketObject(
                      PayloadOf(SourceOf(Passed(q)[i])))
       /\ \A i, j \in 1..Len(Passed(q)) :
             (i < j /\ Passed(q)[i].com = Passed(q)[j].com)
                => Passed(q)[i].idx < Passed(q)[j].idx

\* C2 witness: receive_packet has returned the packets of two different
\* messages the rxThread took one after the other
C2_Witness ==
    /\ Len(retLog[1]) = 2
    /\ retLog[1][1].pkt # retLog[1][2].pkt

\* C10 (as claimed): a malformed inbound frame is dropped; no packet in the
\* inbound application buffer, waiting or returned, derives from one.
C10_MalformedDropped ==
    \A q \in ComIds :
       \A i \in 1..Len(Passed(q)) :
          SourceOf(Passed(q)[i]) \notin MalformedMessages

RECURSIVE IsSubsequence(_, _)
\* a can be obtained from b by leaving elements out
IsSubsequence(a, b) ==
    IF a = << >> THEN TRUE
    ELSE IF b = << >> THEN FALSE
    ELSE IF Head(a) = Head(b) THEN IsSubsequence(Tail(a), Tail(b))
    ELSE IsSubsequence(a, Tail(b))

\* The message a send_packet(pk) call stands for on the OS queue: the port
\* byte 0, then the encoded frame of pk
MessageOf(pk) == << 0 >> \o convertCRTPPacketObjectToBytearray(pk)

\* C3: outbound order is preserved. What a txThread has written to the OS
\* queue is, message by message, the port-0 InterProcessPacket of packets
\* given to send_packet, in the order of those calls, none more than once.
C3_OutboundOrder ==
    \A k \in ComIds :
       IsSubsequence(written[k],
                     [i \in 1..Len(sendLog[k]) |-> MessageOf(sendLog[k][i])])

\* C3 witness: two different packets were sent and both were written
C3_Witness ==
    /\ Len(written[1]) = 2
    /\ written[1][1] # written[1][2]
    /\ Len(sendLog[1]) = 2

\* C8 (as claimed): a packet with a payload longer than MAX_PAYLOAD is
\* rejected at send_packet: the call does not return normally having put the
\* packet into the TxPump buffer.
C8_OversizeRejected ==
    \A k \in ComIds :
       \A i \in 1..Len(sendLog[k]) :
          get_data_size(sendLog[k][i]) <= MAX_PAYLOAD

\* C6 (as claimed): once close() has cleared the flags of an object, both of
\* its threads leave their loops, whatever the state of the OS queues and
\* whether or not the peer reads.
C6_PumpsStop ==
    \A k \in ComIds :
       (rxpc[k] # "unborn" /\ ~rxData[k] /\ ~txData[k])
          ~> (rxpc[k] = "done" /\ txpc[k] = "done")

\* The OS queue objects of SimulationIpcPosix object k
QueuesOf(k) == { rxIpcQueue[k], txIpcQueue[k] } \ { 0 }

\* C5 (as claimed): after close() has returned on an object, its threads
\* dispatch no handler and write no message.
C5_NoWorkAfterClose == \A k \in ComIds : lateWork[k] = 0

\* C7: close() after a successful connect removes both named OS queues of
\* the connection: from its return on, neither name leads to a queue object
\* of the closed connection, and every SimulationIpcPosix constructed later
\* works on other queue objects, which were created empty, so that no
\* message left in the closed connection's queues is visible to it.
C7_CloseRemovesQueues ==
    \A k \in ComIds :
       closedRet[k] =>
          /\ \A n \in QueueNames : mqNames[n] \notin QueuesOf(k)
          /\ \A j \in ComIds : j > k => QueuesOf(j) \cap QueuesOf(k) = {}

\* C7 witness: the connection was closed with a message left in its rx
\* queue, and a later connect() completed on the same names with an rx queue
\* that is empty
C7_Witness ==
    /\ closedRet[1]
    /\ mq[rxIpcQueue[1]] # << >>
    /\ crtpCom["A"] = 2
    /\ ctl["A"] = "idle"
    /\ simCom[2]
    /\ rxQueueName[2] = rxQueueName[1]
    /\ mq[rxIpcQueue[2]] = << >>
    /\ taken[2] = << >>

\* C9 (as claimed): when a queue cannot be opened, connect() does not
\* return normally: a connect() that returned left a link whose
\* construction was completed.
C9_ConnectFailureSurfaced ==
    \A p \in Procs :
       (ctl[p] = "idle" /\ crtpCom[p] # 0) => simCom[crtpCom[p]]

\* The packets p has handed to send_packet on its link
SentBy(p) == IF crtpCom[p] = 0 THEN << >> ELSE sendLog[crtpCom[p]]

\* The packets receive_packet has returned to p
ReturnedTo(p) ==
    IF in_queue[p] = 0 THEN << >>
    ELSE [i \in 1..Len(retLog[in_queue[p]]) |-> retLog[in_queue[p]][i].pkt]

\* C4: end-to-end delivery. With A and B connected on crossed queues and
\* neither closing, what receive_packet(-1) has returned on B is at every
\* moment the first packets A handed to send_packet, header and payload
\* bytes unchanged, and again and again B has been returned every packet A
\* has sent so far: each packet sent is eventually returned on B.
C4_EndToEnd ==
    /\ [](/\ Len(ReturnedTo("B")) <= Len(SentBy("A"))
          /\ \A i \in 1..Len(ReturnedTo("B")) :
                /\ get_header(ReturnedTo("B")[i]) = get_header(SentBy("A")[i])
                /\ ReturnedTo("B")[i].data = SentBy("A")[i].data)
    /\ []<>(Len(ReturnedTo("B")) = Len(SentBy("A")))

\* C4 witness: B has been returned both packets A sent, the longest legal
\* payload and the payload ending in the padding value among them
C4_Witness ==
    /\ Len(SentBy("A")) = 2
    /\ ReturnedTo("B") = SentBy("A")
    /\ SentBy("A")[1].data = Fill(MAX_PAYLOAD, 7)
    /\ SentBy("A")[2].data = << 5, 0 >>

\* The dispatch of the i-th message rxThread k took: port and payload of the
\* message, the registry when the dispatch started, the handler calls made
\* and whether one of them raised
DispatchOf(k, i) ==
    [port |-> PortOf(taken[k][i]), payload |-> PayloadOf(taken[k][i]),
     registry |-> dispatched[k][i].registry,
     invoked |-> dispatched[k][i].invoked,
     raised |-> dispatched[k][i].raised]

\* The handlers registered on the port of a dispatched message when its
\* dispatch started
HandlersAtStart(d) ==
    IF d.port \in DOMAIN d.registry THEN d.registry[d.port] ELSE << >>

\* The handlers a dispatch invoked, in the order of the calls
InvokedBy(d) == [j \in 1..Len(d.invoked) |-> d.invoked[j].cb]

\* h occurs in the sequence s
Occurs(h, s) == \E j \in 1..Len(s) : s[j] = h

\* No element occurs twice in the sequence s
NoDuplicates(s) == \A i, j \in 1..Len(s) : s[i] = s[j] => i = j

\* C11 (as claimed): handler errors are contained per handler. For every
\* message an rxThread has dispatched, every handler that was registered on
\* the message's port has been invoked, also when one of them raised, and
\* the thread is still in its loop.
C11_HandlerErrorsContained ==
    \A k \in ComIds :
       /\ \A i \in 1..Len(dispatched[k]) :
             \A j \in 1..Len(HandlersAtStart(DispatchOf(k, i))) :
                Occurs(HandlersAtStart(DispatchOf(k, i))[j],
                       InvokedBy(DispatchOf(k, i)))
       /\ (rxData[k] /\ rxpc[k] # "unborn") => rxpc[k] \in {"loop", "receive"}

\* C12 (as claimed): registration is idempotent. No handler occurs twice in
\* the list of a port, and no dispatch has invoked a handler twice for one
\* message.
C12_RegistrationIdempotent ==
    \A k \in ComIds :
       /\ \A port \in DOMAIN portCallbacks[k] :
             NoDuplicates(portCallbacks[k][port])
       /\ \A i \in 1..Len(dispatched[k]) :
             NoDuplicates(InvokedBy(DispatchOf(k, i)))

\* The list s with every occurrence of h taken out
Without(s, h) == SelectSeq(s, LAMBDA x : x # h)

\* C13 (as claimed): every removePortCallback(port, cb) call returns without
\* an error; it leaves the list of the port without cb when cb was
\* registered there, keeping the other handlers, and leaves the registry as
\* it was when cb was not registered on the port or the port was unknown.
C13_RemoveUnregisters ==
    [][\A r \in Removals :
          RemovePortCallbackCall("A", r[1], r[2]) =>
             LET k == crtpCom["A"]
             IN  /\ result'["A"] = "removePortCallback returned"
                 /\ IF Occurs(r[2], HandlersFor(k, r[1]))
                    THEN /\ r[1] \in DOMAIN portCallbacks'[k]
                         /\ portCallbacks'[k][r[1]] =
                               Without(portCallbacks[k][r[1]], r[2])
                    ELSE portCallbacks' = portCallbacks]_vars

\* C14 (as claimed): dispatch fan-out. Every dispatch has invoked exactly
\* the handlers that were registered on the message's port when it started,
\* each once per registration, in registration order and with the payload of
\* the message; a handler registered while the dispatch ran is not among
\* them.
C14_DispatchFanOut ==
    \A k \in ComIds :
       \A i \in 1..Len(dispatched[k]) :
          /\ InvokedBy(DispatchOf(k, i)) = HandlersAtStart(DispatchOf(k, i))
          /\ \A j \in 1..Len(DispatchOf(k, i).invoked) :
                DispatchOf(k, i).invoked[j].payload = DispatchOf(k, i).payload

\* The dispatch rxThread k has just made, in the state after it
LastDispatch(k) ==
    [port |-> PortOf(taken'[k][Len(taken'[k])]),
     invoked |-> dispatched'[k][Len(dispatched'[k])].invoked,
     raised |-> dispatched'[k][Len(dispatched'[k])].raised]

\* C15: port isolation. Every handler a dispatch invoked was registered on
\* the port of the message, so a handler registered on other ports only is
\* never invoked for it; and the dispatch of a message whose port has no
\* handler raises nothing, invokes nothing and leaves the registry and the
\* inbound application buffer as they were, the thread going on.
C15_PortIsolation ==
    /\ [](\A k \in ComIds :
            \A i \in 1..Len(dispatched[k]) :
               \A j \in 1..Len(DispatchOf(k, i).invoked) :
                  Occurs(DispatchOf(k, i).invoked[j].cb,
                         HandlersAtStart(DispatchOf(k, i))))
    /\ [][\A k \in ComIds :
            (/\ Len(dispatched'[k]) > Len(dispatched[k])
             /\ LastDispatch(k).port # NoByte
             /\ LastDispatch(k).port \notin DOMAIN portCallbacks[k])
               => /\ LastDispatch(k).invoked = << >>
                  /\ ~LastDispatch(k).raised
                  /\ portCallbacks' = portCallbacks
                  /\ inQ' = inQ
                  /\ rxpc'[k] = "loop"]_vars

\* C15 witness: a message for port 6 was dispatched while handlers were
\* registered on ports 0 and 5 only; nothing was invoked and the inbound
\* application buffer is empty
C15_Witness ==
    /\ Len(dispatched[1]) = 1
    /\ DispatchOf(1, 1).port = 6
    /\ DOMAIN DispatchOf(1, 1).registry = { PORT_IPC_CRTP, 5 }
    /\ DispatchOf(1, 1).invoked = << >>
    /\ portCallbacks[1] = DispatchOf(1, 1).registry
    /\ inQ[1] = << >>

\* C16: round-trip law. The packet decoded from the frame a packet of
\* 0..MAX_PAYLOAD payload bytes was encoded to has the header of that packet
\* and exactly its payload bytes, whatever the payload ends in.
C16_RoundTrip ==
    codec.pc = "done" =>
       /\ get_header(codec.result) = get_header(codec.packet)
       /\ codec.result.data = codec.packet.data

\* C16 witness: a packet whose 30 payload bytes end in the padding value was
\* encoded and decoded back
C16_Witness ==
    /\ codec.pc = "done"
    /\ get_data_size(codec.packet) = MAX_PAYLOAD
    /\ codec.packet.data[MAX_PAYLOAD] = 0
    /\ codec.packet.data[1] = 7
    /\ codec.result = codec.packet

\* C17: send_packet never blocks on the OS queue. On a connected link a
\* send_packet call can always complete, also while the outbound OS queue is
\* full and the txThread is waiting inside its send(); the call appends one
\* InterProcessPacket to the TxPump buffer, returns, and leaves the OS
\* queues as they are.
C17_SendNeverBlocks ==
    /\ [](\A pk \in SendPackets :
            (ctl["A"] = "idle" /\ LinkOpen("A") /\ nSend < MaxSend)
               => ENABLED send_packet("A", pk))
    /\ [][\A pk \in SendPackets :
            (LinkOpen("A") /\ send_packet("A", pk)) =>
               /\ result'["A"] = "send_packet returned"
               /\ osVars' = osVars
               /\ txThreadQueue'[crtpCom["A"]] =
                     Append(txThreadQueue[crtpCom["A"]],
                            InterProcessPacket(PORT_IPC_CRTP,
                               convertCRTPPacketObjectToBytearray(pk)))]_vars

\* C17 witness: two send_packet calls have returned on the open link; the
\* outbound OS queue is full with the first packet, which the peer has not
\* read, and the txThread waits inside send() with the second
C17_Witness ==
    /\ ctl["A"] = "idle"
    /\ LinkOpen("A")
    /\ result["A"] = "send_packet returned"
    /\ Len(sendLog[1]) = 2
    /\ IsFull(txIpcQueue[1])
    /\ txpc[1] = "send"
    /\ txThreadQueue[1] = << >>

\* C18 (as claimed): frame size invariant. The frame the encoder produced
\* for every packet send_packet put into the TxPump buffer is exactly
\* 2 + MAX_PAYLOAD bytes long, and the message the txThread hands to the OS
\* queue for it (port byte and frame) is no longer than the queue's maximum
\* message size.
C18_FrameSize ==
    \A k \in ComIds :
       \A i \in 1..Len(sendLog[k]) :
          /\ Len(convertCRTPPacketObjectToBytearray(sendLog[k][i]))
                = 2 + MAX_PAYLOAD
          /\ Len(getBytes(InterProcessPacket(PORT_IPC_CRTP,
                    convertCRTPPacketObjectToBytearray(sendLog[k][i]))))
                <= MAX_MESSAGE_SIZE

\* A message for the application port carrying a frame of the fixed length
\* whose size byte is within MAX_PAYLOAD
WellFormedMessage(m) ==
    /\ Len(m) = 1 + 2 + MAX_PAYLOAD
    /\ PortOf(m) = PORT_IPC_CRTP
    /\ m[2] <= MAX_PAYLOAD

\* C19 (as claimed): no inbound frame is lost around connect. Every
\* well-formed application-port message an rxThread has taken from its OS
\* queue has reached an inbound application buffer: its packet waits there
\* or was returned by receive_packet.
C19_NoFrameLostAroundConnect ==
    \A k \in ComIds :
       \A n \in 1..Len(taken[k]) :
          WellFormedMessage(taken[k][n]) =>
             \E q \in ComIds :
                \E i \in 1..Len(Passed(q)) :
                   Passed(q)[i].com = k /\ Passed(q)[i].idx = n

\* C20 (as claimed): connections do not leak into each other. The
\* queue.Queue created by the connect() that constructed object k is queue
\* k; every packet it holds or that receive_packet returned from it was put
\* there by the rxThread of object k, from a message of k's own OS queue.
C20_NoLeakAcrossConnections ==
    \A q \in ComIds :
       \A i \in 1..Len(Passed(q)) : Passed(q)[i].com = q

=============================================================================
